---- MODULE Spec2Model ----
(***************************************************************************)
(* Feed refresh and multi-source deduplication pipeline of the RSS         *)
(* newsletter application: freshness classification, concurrent refresh    *)
(* of stale feeds, article upsert keyed by guid, windowed retrieval.       *)
(*                                                                         *)
(* Persistence is Prisma on MongoDB.  Two facts of that stack are part of  *)
(* the model: an upsert is a lookup followed by a separate create or       *)
(* update (a create that meets an existing guid fails with P2002 on the    *)
(* unique index), and a descending sort places null after every date.      *)
(*                                                                         *)
(* Specifications: Spec (two concurrent pipeline passes), SpecClassify     *)
(* (the classifier on drawn feed tables), SpecRetrieve (windowed retrieval *)
(* on drawn stores), SpecFetch (direct calls of fetchAndStoreFeed),        *)
(* SpecParser (identity key of a parsed item), SpecStream (the             *)
(* generate-stream endpoint around one pass).                              *)
(***************************************************************************)
EXTENDS Integers, Sequences, FiniteSets, TLC

VARIABLES now, rssFeed, rssArticle, req, task, faults, cls, route, parsed, query,
          sweep, client, newsletter, action

vars == <<now, rssFeed, rssArticle, req, task, faults, cls, route, parsed, query,
          sweep, client, newsletter, action>>

------------------------------------------------------------------------------
(* Bounds *)

MaxTicks == 1
MaxDbFailures == 1
MaxRows == 3
MaxPartials == 2

(* Program constants *)

HOUR == 60 * 60 * 1000
CACHE_WINDOW == 3 * 60 * 60 * 1000
HALF_HOUR == 30 * 60 * 1000
ARTICLE_LIMIT == 100

(* The clock of the pipeline model advances in steps of two hours. *)
TickMs == 2 * HOUR

NULL == -1

------------------------------------------------------------------------------
(* The world: three subscriptions, two of them to the same URL, and the    *)
(* documents served at the two URLs.  Both documents carry the item g1     *)
(* (a syndicated article), with different content and publish date.        *)

FeedOrder == <<"F1", "F2", "F3">>
FeedIds == {"F1", "F2", "F3"}
Reqs == {"R1", "R2"}

FeedUrl(f) == IF f = "F3" THEN "U2" ELSE "U1"

Item(g, u, d) ==
    [guid |-> g, title |-> <<"title", g, u>>, link |-> <<"link", g, u>>,
     content |-> <<"content", g, u>>, summary |-> <<"summary", g, u>>,
     pubDate |-> d, author |-> <<"author", u>>, categories |-> <<u>>,
     imageUrl |-> <<"img", g, u>>]

Document(u) ==
    IF u = "U1" THEN << Item("g1", "U1", 10) >>
                ELSE << Item("g1", "U2", 30), Item("g2", "U2", 20) >>

Guids == {"g1", "g2"}

(* extractFeedMetadata on the document served at u. *)
FeedMetadata(u) ==
    [title |-> <<"feed title", u>>, description |-> <<"description", u>>,
     link |-> <<"site", u>>, imageUrl |-> <<"image", u>>, language |-> <<"en">>]

(* The metadata columns of a feed row that was created from its URL alone   *)
(* and never refreshed with success.                                        *)
NoMetadata ==
    [title |-> <<>>, description |-> <<>>, link |-> <<>>, imageUrl |-> <<>>,
     language |-> <<>>]

------------------------------------------------------------------------------
(* Sequence helpers *)

Range(s) == { s[i] : i \in 1..Len(s) }

Count(s, x) == Cardinality({ i \in 1..Len(s) : s[i] = x })

(* take left out: every matching row is returned. *)
Take_All(s, n) == s

(* take: n *)
Take(s, n) == IF Len(s) <= n THEN s ELSE SubSeq(s, 1, n)

------------------------------------------------------------------------------
(* Optional strings of a parsed item or a JSON body: absent (undefined),   *)
(* empty, or a sequence of characters.                                      *)

Absent == [present |-> FALSE, chars |-> <<>>]
Str(cs) == [present |-> TRUE, chars |-> cs]

(* The truthiness that || and ! test: undefined and "" are falsy. *)
Truthy(s) == s.present /\ Len(s.chars) > 0

(* `${s}` : an undefined value prints as the word undefined. *)
Template(s) == IF s.present THEN s.chars ELSE <<"undefined">>

------------------------------------------------------------------------------
(* Error handling (lib/database/error-handler.ts) *)

PrismaError(code) == [prisma |-> TRUE, code |-> code]
PlainError(msg) == [prisma |-> FALSE, code |-> msg]

isPrismaError(e) == e.prisma

handlePrismaError(e) ==
    IF e.code = "P2002" THEN PlainError("Duplicate entry found")
    ELSE PlainError("Database error")

(* handleDatabaseError always throws a plain Error, whatever it caught. *)
handleDatabaseError(e) ==
    IF isPrismaError(e) THEN handlePrismaError(e) ELSE PlainError(e.code)

(* What a caller of wrapDatabaseOperation catches when the operation threw e. *)
wrapDatabaseOperation(e) == handleDatabaseError(e)

------------------------------------------------------------------------------
(* Freshness classifier (lib/rss/feed-refresh.ts) *)

(* A descending sort that places null first, as SQL stores do. *)
DescBefore_NullsFirst(a, b) == a = NULL \/ (b # NULL /\ a >= b)

(* orderBy lastFetched desc on MongoDB: a sorts at or before b. *)
DescBefore(a, b) == b = NULL \/ (a # NULL /\ a >= b)

(* findFirst({where: {url}, orderBy: {lastFetched: "desc"}}).lastFetched;  *)
(* NULL also stands for "no row".                                          *)
mostRecentFetch(feeds, u) ==
    LET rows == { f \in DOMAIN feeds : feeds[f].url = u } IN
    IF rows = {} THEN NULL
    ELSE LET first == CHOOSE f \in rows :
                        \A g \in rows : DescBefore(feeds[f].lastFetched, feeds[g].lastFetched)
         IN feeds[first].lastFetched

(* The comparison with the window taken as >= . *)
needsRefresh_AtWindow(feeds, f, t, w) ==
    LET last == mostRecentFetch(feeds, feeds[f].url) IN
    IF last = NULL THEN TRUE
    ELSE (t - last) >= w

needsRefresh(feeds, f, t, w) ==
    LET last == mostRecentFetch(feeds, feeds[f].url) IN
    IF last = NULL THEN TRUE
    ELSE (t - last) > w

RECURSIVE FeedsToRefresh(_, _, _, _, _)
FeedsToRefresh(order, feedIds, feeds, t, w) ==
    IF order = <<>> THEN <<>>
    ELSE LET f == Head(order)
             rest == FeedsToRefresh(Tail(order), feedIds, feeds, t, w) IN
         IF f \in feedIds /\ f \in DOMAIN feeds /\ needsRefresh(feeds, f, t, w)
         THEN <<f>> \o rest ELSE rest

getFeedsToRefresh(feedIds) == FeedsToRefresh(FeedOrder, feedIds, rssFeed, now, CACHE_WINDOW)

------------------------------------------------------------------------------
(* Article store (actions/rss-article.ts, revision with sourceFeedIds) *)

GuidIndex(g) == { i \in 1..Len(rssArticle) : rssArticle[i].guid = g }

createRow(data) ==
    [feedId |-> data.feedId, guid |-> data.guid, sourceFeedIds |-> <<data.feedId>>,
     title |-> data.title, link |-> data.link, content |-> data.content,
     summary |-> data.summary, pubDate |-> data.pubDate, author |-> data.author,
     categories |-> data.categories, imageUrl |-> data.imageUrl]

(* An update that sets the source set to the new feed id alone. *)
updateRow_Replace(row, data) == [row EXCEPT !.sourceFeedIds = <<data.feedId>>]

(* An update that also rewrites the content from the new sighting. *)
updateRow_Overwrite(row, data) ==
    [row EXCEPT !.sourceFeedIds = Append(@, data.feedId), !.title = data.title,
                !.pubDate = data.pubDate]

(* An update that appends the feed id only when it is not yet in the set. *)
updateRow_Dedup(row, data) ==
    IF data.feedId \in Range(row.sourceFeedIds) THEN row
    ELSE [row EXCEPT !.sourceFeedIds = Append(@, data.feedId)]

(* update: { sourceFeedIds: { push: feedId } } *)
updateRow(row, data) == [row EXCEPT !.sourceFeedIds = Append(@, data.feedId)]

(* A guid column without the unique index. *)
uniqueGuidFree_NoIndex(g) == TRUE

(* Unique index on guid: can a row with this guid be inserted now? *)
uniqueGuidFree(g) == GuidIndex(g) = {}

(* articlesToCreate of fetchAndStoreFeed *)
articlesToCreate(f, u) ==
    [ i \in 1..Len(Document(u)) |->
        [feedId |-> f, guid |-> Document(u)[i].guid, title |-> Document(u)[i].title,
         link |-> Document(u)[i].link, content |-> Document(u)[i].content,
         summary |-> Document(u)[i].summary, pubDate |-> Document(u)[i].pubDate,
         author |-> Document(u)[i].author, categories |-> Document(u)[i].categories,
         imageUrl |-> Document(u)[i].imageUrl] ]

(* catch block of bulkCreateRssArticles: which counter a caught error bumps *)
bulkClassify(e) == IF isPrismaError(e) /\ e.code = "P2002" THEN "skipped" ELSE "errors"

------------------------------------------------------------------------------
(* Windowed retrieval *)

(* A where clause on the primary feed only. *)
matchesWindow_PrimaryOnly(a, feedIds, startDate, endDate) ==
    /\ a.feedId \in feedIds
    /\ a.pubDate >= startDate
    /\ a.pubDate <= endDate

matchesWindow(a, feedIds, startDate, endDate) ==
    /\ (a.feedId \in feedIds \/ Range(a.sourceFeedIds) \cap feedIds # {})
    /\ a.pubDate >= startDate
    /\ a.pubDate <= endDate

RECURSIVE InsertDesc(_, _)
InsertDesc(a, s) ==
    IF s = <<>> THEN <<a>>
    ELSE IF Head(s).pubDate >= a.pubDate THEN <<Head(s)>> \o InsertDesc(a, Tail(s))
    ELSE <<a>> \o s

RECURSIVE SortDesc(_)
SortDesc(s) == IF s = <<>> THEN <<>> ELSE InsertDesc(Head(s), SortDesc(Tail(s)))

(* { ...article, sourceCount: article.sourceFeedIds.length } *)
withSourceCount(a) ==
    [guid |-> a.guid, feedId |-> a.feedId, pubDate |-> a.pubDate, title |-> a.title,
     sourceFeedIds |-> a.sourceFeedIds, sourceCount |-> Len(a.sourceFeedIds)]

getArticlesByFeedsAndDateRange(feedIds, startDate, endDate, limit) ==
    LET found == SelectSeq(rssArticle, LAMBDA a : matchesWindow(a, feedIds, startDate, endDate))
        page == Take(SortDesc(found), limit) IN
    [ i \in 1..Len(page) |-> withSourceCount(page[i]) ]

------------------------------------------------------------------------------
(* State of the pipeline model *)

NoTask ==
    [pc |-> "none", batch |-> <<>>, idx |-> 0, found |-> FALSE,
     created |-> 0, skipped |-> 0, errors |-> 0, log |-> <<>>,
     fetched |-> FALSE, error |-> "", seen |-> NULL]

NoResult == [status |-> "none", articles |-> <<>>, error |-> ""]

NoReq ==
    [pc |-> "idle", feedIds |-> {}, stale |-> <<>>, successful |-> 0, failed |-> 0,
     startDate |-> 0, endDate |-> 0, result |-> NoResult]

NoCls == [feedIds |-> {}, window |-> 0, out |-> <<>>]

NoBody == [feedIds |-> [kind |-> "missing", ids |-> <<>>],
           startDate |-> Absent, endDate |-> Absent]

(* The generate-stream endpoint before a request arrives. *)
NoRoute ==
    [pc |-> "none", body |-> NoBody, caller |-> "user", status |-> 0,
     events |-> <<>>, closed |-> FALSE]

(* The parser before extractArticles ran on the item. *)
NoParsed ==
    [item |-> [guid |-> Absent, link |-> Absent, title |-> Absent],
     feedId |-> "F1", out |-> <<>>]

(* No retrieval asked yet (limit 0). *)
NoQuery == [feedIds |-> {}, startDate |-> 0, endDate |-> 0, limit |-> 0, out |-> <<>>]

(* fetchAllUserFeeds before it is called. *)
NoSweep ==
    [pc |-> "none", feeds |-> <<>>, idx |-> 0, total |-> 0, successful |-> 0, failed |-> 0,
     totalArticlesCreated |-> 0, totalArticlesSkipped |-> 0, errors |-> <<>>]

(* NewsletterGenerationPage after mount: the useState initial values; read  *)
(* counts the stream events consumed, toasts the messages shown.            *)
NoClient ==
    [pc |-> "mounted", read |-> 0, isGenerating |-> FALSE, loadingPhase |-> "idle",
     newsletter |-> NULL, articlesAnalyzed |-> 0, feedCount |-> 0, toasts |-> <<>>]

(* The newsletter collection, empty (rows by id, and the count of ids      *)
(* handed out so far), and no server action called yet.                     *)
NoNewsletters == [rows |-> << >>, created |-> 0]

NoAction == [name |-> "none", caller |-> "anon", id |-> 0, outcome |-> ""]

(* The requests of the pipeline model: R1 asks for two feeds, R2 for one. *)
ReqFeedSets(r) ==
    IF r = "R1" THEN { {"F1", "F2"}, {"F1", "F3"} } ELSE { {"F1"}, {"F2"} }

(* Date ranges of the requests: one covering every item, one covering the   *)
(* items of the second document only.                                        *)
Windows == { <<0, 40>>, <<20, 30>> }

(* At most one subscription is switched off (toggleFeedActive). *)
InactiveSets == {{}} \cup { {f} : f \in FeedIds }

DbFaults == { PlainError("connection lost"), PrismaError("P2024") }

Init ==
    /\ now = 0
    /\ \E off \in InactiveSets :
         rssFeed = [f \in FeedIds |->
                      [url |-> FeedUrl(f), lastFetched |-> NULL, isActive |-> f \notin off,
                       meta |-> NoMetadata]]
    /\ rssArticle = <<>>
    /\ req = [r \in Reqs |-> NoReq]
    /\ task = [r \in Reqs |-> [f \in FeedIds |-> NoTask]]
    /\ faults = 0
    /\ cls = NoCls
    /\ route = NoRoute
    /\ parsed = NoParsed
    /\ query = NoQuery
    /\ sweep = NoSweep
    /\ client = NoClient
    /\ newsletter = NoNewsletters
    /\ action = NoAction

------------------------------------------------------------------------------
(* prepareFeedsAndArticles, first part: classify, then start one            *)
(* fetchAndStoreFeed per stale feed (Promise.allSettled over the map).      *)

(* A pass that leaves out the feeds whose refresh failed in another pass. *)
PrepareStart_SkipFailed(r, ids) ==
    /\ req[r].pc = "idle"
    /\ LET stale == SelectSeq(getFeedsToRefresh(ids),
                              LAMBDA f : \A q \in Reqs : task[q][f].pc # "rejected") IN
       /\ req' = [req EXCEPT ![r] =
                    [@ EXCEPT !.pc = IF Len(stale) > 0 THEN "refreshing" ELSE "retrieve",
                              !.feedIds = ids, !.stale = stale]]
       /\ task' = [task EXCEPT ![r] =
                    [f \in FeedIds |->
                       IF f \in Range(stale)
                       THEN [NoTask EXCEPT !.pc = "start",
                                           !.seen = mostRecentFetch(rssFeed, rssFeed[f].url)]
                       ELSE NoTask]]
    /\ UNCHANGED <<now, rssFeed, rssArticle, faults, cls, route, parsed, query,
                  sweep, client, newsletter, action>>

(* A pass that refreshes every requested feed, stale or not. *)
PrepareStart_RefreshAll(r, ids) ==
    /\ req[r].pc = "idle"
    /\ LET stale == getFeedsToRefresh(ids) IN
       /\ req' = [req EXCEPT ![r] =
                    [@ EXCEPT !.pc = "refreshing", !.feedIds = ids, !.stale = stale]]
       /\ task' = [task EXCEPT ![r] =
                    [f \in FeedIds |->
                       IF f \in ids
                       THEN [NoTask EXCEPT !.pc = "start",
                                           !.seen = mostRecentFetch(rssFeed, rssFeed[f].url)]
                       ELSE NoTask]]
    /\ UNCHANGED <<now, rssFeed, rssArticle, faults, cls, route, parsed, query,
                  sweep, client, newsletter, action>>

(* Each refresh keeps, in seen, the latest fetch of its URL that the        *)
(* classification found.                                                    *)
PrepareStart(r, ids) ==
    /\ req[r].pc = "idle"
    /\ LET stale == getFeedsToRefresh(ids) IN
       /\ req' = [req EXCEPT ![r] =
                    [@ EXCEPT !.pc = IF Len(stale) > 0 THEN "refreshing" ELSE "retrieve",
                              !.feedIds = ids, !.stale = stale]]
       /\ task' = [task EXCEPT ![r] =
                    [f \in FeedIds |->
                       IF f \in Range(stale)
                       THEN [NoTask EXCEPT !.pc = "start",
                                           !.seen = mostRecentFetch(rssFeed, rssFeed[f].url)]
                       ELSE NoTask]]
    /\ UNCHANGED <<now, rssFeed, rssArticle, faults, cls, route, parsed, query,
                  sweep, client, newsletter, action>>

(* The active check left out. *)
feedNotActive_Ignored(feed) == FALSE

(* if (!feed.isActive) throw *)
feedNotActive(feed) == ~feed.isActive

(* if (!feed) throw: findUnique found no row with this id. *)
feedMissing(f) == f \notin DOMAIN rssFeed

(* fetchAndStoreFeed up to the parsed document: feed lookup, active check,  *)
(* fetchAndParseFeed.  Any throw is caught and rethrown: the task rejects.  *)
FetchFeed(r, f) ==
    /\ task[r][f].pc = "start"
    /\ IF feedMissing(f)
       THEN task' = [task EXCEPT ![r][f] =
                       [@ EXCEPT !.pc = "rejected", !.error = "Feed not found"]]
       ELSE
       LET feed == rssFeed[f] IN
       IF feedNotActive(feed)
       THEN task' = [task EXCEPT ![r][f] =
                       [@ EXCEPT !.pc = "rejected", !.error = "Feed is not active"]]
       ELSE \/ task' = [task EXCEPT ![r][f] =
                          [@ EXCEPT !.pc = IF Len(articlesToCreate(f, feed.url)) > 0
                                           THEN "find" ELSE "stamp",
                                    !.fetched = TRUE, !.idx = 1,
                                    !.batch = articlesToCreate(f, feed.url)]]
            \/ task' = [task EXCEPT ![r][f] =
                          [@ EXCEPT !.pc = "rejected", !.fetched = TRUE,
                                    !.error = "Failed to fetch or parse RSS feed"]]
    /\ UNCHANGED <<now, rssFeed, rssArticle, req, faults, cls, route, parsed, query,
                  sweep, client, newsletter, action>>

(* createRssArticle, first half of prisma.rssArticle.upsert: the lookup.    *)
UpsertFind(r, f) ==
    /\ task[r][f].pc = "find"
    /\ task' = [task EXCEPT ![r][f] =
                  [@ EXCEPT !.pc = "write",
                            !.found = ~uniqueGuidFree(task[r][f].batch[task[r][f].idx].guid)]]
    /\ UNCHANGED <<now, rssFeed, rssArticle, req, faults, cls, route, parsed, query,
                  sweep, client, newsletter, action>>

(* A loop whose catch block rethrows what it cannot classify as a        *)
(* duplicate: the batch is abandoned and the refresh rejects.               *)
BulkNext_Rethrow(t, counter, cause) ==
    IF counter = "errors"
    THEN [t EXCEPT !.pc = "rejected", !.error = "Failed to fetch feed"]
    ELSE [t EXCEPT !.pc = IF t.idx = Len(t.batch) THEN "stamp" ELSE "find",
                   !.idx = t.idx + 1,
                   !.created = IF counter = "created" THEN @ + 1 ELSE @,
                   !.skipped = IF counter = "skipped" THEN @ + 1 ELSE @,
                   !.log = Append(@, cause)]

(* A loop that leaves the batch after its first article. *)
BulkNext_StampEarly(t, counter, cause) ==
    [t EXCEPT !.pc = "stamp",
              !.idx = t.idx + 1,
              !.created = IF counter = "created" THEN @ + 1 ELSE @,
              !.skipped = IF counter = "skipped" THEN @ + 1 ELSE @,
              !.errors = IF counter = "errors" THEN @ + 1 ELSE @,
              !.log = Append(@, cause)]

(* One iteration of the loop of bulkCreateRssArticles after the lookup.     *)
BulkNext(t, counter, cause) ==
    [t EXCEPT !.pc = IF t.idx = Len(t.batch) THEN "stamp" ELSE "find",
              !.idx = t.idx + 1,
              !.created = IF counter = "created" THEN @ + 1 ELSE @,
              !.skipped = IF counter = "skipped" THEN @ + 1 ELSE @,
              !.errors = IF counter = "errors" THEN @ + 1 ELSE @,
              !.log = Append(@, cause)]

(* Second half of the upsert: update (push) when the lookup found the row,  *)
(* create otherwise; then the try/catch of bulkCreateRssArticles.           *)
UpsertWrite(r, f) ==
    /\ task[r][f].pc = "write"
    /\ LET t == task[r][f]
           data == t.batch[t.idx] IN
       IF t.found
       THEN /\ rssArticle' = [ i \in 1..Len(rssArticle) |->
                                 IF rssArticle[i].guid = data.guid
                                 THEN updateRow(rssArticle[i], data) ELSE rssArticle[i] ]
            /\ task' = [task EXCEPT ![r][f] = BulkNext(t, "created", "ok")]
       ELSE IF uniqueGuidFree(data.guid)
       THEN /\ rssArticle' = Append(rssArticle, createRow(data))
            /\ task' = [task EXCEPT ![r][f] = BulkNext(t, "created", "ok")]
       ELSE /\ rssArticle' = rssArticle
            /\ task' = [task EXCEPT ![r][f] =
                          BulkNext(t, bulkClassify(wrapDatabaseOperation(PrismaError("P2002"))),
                                   "P2002")]
    /\ UNCHANGED <<now, rssFeed, req, faults, cls, route, parsed, query,
                  sweep, client, newsletter, action>>

(* The upsert fails for another reason (connection, timeout). *)
UpsertFault(r, f) ==
    /\ task[r][f].pc = "write"
    /\ faults < MaxDbFailures
    /\ \E e \in DbFaults :
         task' = [task EXCEPT ![r][f] =
                    BulkNext(task[r][f], bulkClassify(wrapDatabaseOperation(e)), "fault")]
    /\ faults' = faults + 1
    /\ UNCHANGED <<now, rssFeed, rssArticle, req, cls, route, parsed, query,
                  sweep, client, newsletter, action>>

(* A refresh that reports failure, and leaves lastFetched alone, when an *)
(* upsert of its batch was counted as an error.                             *)
StampFeed_CleanOnly(r, f) ==
    /\ task[r][f].pc = "stamp"
    /\ IF task[r][f].errors > 0
       THEN /\ rssFeed' = rssFeed
            /\ task' = [task EXCEPT ![r][f] =
                          [@ EXCEPT !.pc = "rejected", !.error = "Failed to store articles"]]
       ELSE /\ rssFeed' = [rssFeed EXCEPT ![f].lastFetched = now]
            /\ task' = [task EXCEPT ![r][f].pc = "fulfilled"]
    /\ UNCHANGED <<now, rssArticle, req, faults, cls, route, parsed, query,
                  sweep, client, newsletter, action>>

(* updateFeedLastFetched, then fetchAndStoreFeed returns. *)
StampFeed(r, f) ==
    /\ task[r][f].pc = "stamp"
    /\ rssFeed' = [rssFeed EXCEPT ![f].lastFetched = now]
    /\ task' = [task EXCEPT ![r][f].pc = "fulfilled"]
    /\ UNCHANGED <<now, rssArticle, req, faults, cls, route, parsed, query,
                  sweep, client, newsletter, action>>

(* A fail-fast join (Promise.all): resolved at the first rejection. *)
Settled_FailFast(r) ==
    \/ \E f \in Range(req[r].stale) : task[r][f].pc = "rejected"
    \/ \A f \in Range(req[r].stale) : task[r][f].pc = "fulfilled"

(* Promise.allSettled: every started refresh has fulfilled or rejected. *)
Settled(r) == \A f \in Range(req[r].stale) : task[r][f].pc \in {"fulfilled", "rejected"}

(* Promise.allSettled resolves; the two counts are taken. *)
RefreshSettled(r) ==
    /\ req[r].pc = "refreshing"
    /\ Settled(r)
    /\ req' = [req EXCEPT ![r] =
                 [@ EXCEPT !.pc = "retrieve",
                           !.successful = Cardinality({f \in Range(req[r].stale) : task[r][f].pc = "fulfilled"}),
                           !.failed = Cardinality({f \in Range(req[r].stale) : task[r][f].pc = "rejected"})]]
    /\ UNCHANGED <<now, rssFeed, rssArticle, task, faults, cls, route, parsed, query,
                  sweep, client, newsletter, action>>

(* The retrieval without the empty check: an empty list is returned. *)
Retrieve_EmptyOk(r, w) ==
    /\ req[r].pc = "retrieve"
    /\ LET articles == getArticlesByFeedsAndDateRange(req[r].feedIds, w[1], w[2], ARTICLE_LIMIT) IN
       req' = [req EXCEPT ![r] =
                 [@ EXCEPT !.pc = "done", !.startDate = w[1], !.endDate = w[2],
                           !.result = [status |-> "ok", articles |-> articles, error |-> ""]]]
    /\ UNCHANGED <<now, rssFeed, rssArticle, task, faults, cls, route, parsed, query,
                  sweep, client, newsletter, action>>

(* prepareFeedsAndArticles, last part: retrieval and the empty check. *)
Retrieve(r, w) ==
    /\ req[r].pc = "retrieve"
    /\ LET articles == getArticlesByFeedsAndDateRange(req[r].feedIds, w[1], w[2], ARTICLE_LIMIT) IN
       req' = [req EXCEPT ![r] =
                 [@ EXCEPT !.pc = "done", !.startDate = w[1], !.endDate = w[2],
                           !.result = IF Len(articles) = 0
                                      THEN [status |-> "error", articles |-> <<>>,
                                            error |-> "No articles found for the selected feeds and date range"]
                                      ELSE [status |-> "ok", articles |-> articles, error |-> ""]]]
    /\ UNCHANGED <<now, rssFeed, rssArticle, task, faults, cls, route, parsed, query,
                  sweep, client, newsletter, action>>

Tick ==
    /\ now < MaxTicks * TickMs
    /\ now' = now + TickMs
    /\ UNCHANGED <<rssFeed, rssArticle, req, task, faults, cls, route, parsed, query,
                  sweep, client, newsletter, action>>

Next ==
    \/ \E r \in Reqs : \E ids \in ReqFeedSets(r) : PrepareStart(r, ids)
    \/ \E r \in Reqs, f \in FeedIds : FetchFeed(r, f)
    \/ \E r \in Reqs, f \in FeedIds : UpsertFind(r, f)
    \/ \E r \in Reqs, f \in FeedIds : UpsertWrite(r, f)
    \/ \E r \in Reqs, f \in FeedIds : UpsertFault(r, f)
    \/ \E r \in Reqs, f \in FeedIds : StampFeed(r, f)
    \/ \E r \in Reqs : RefreshSettled(r)
    \/ \E r \in Reqs, w \in Windows : Retrieve(r, w)
    \/ Tick

Spec == Init /\ [][Next]_vars


------------------------------------------------------------------------------
(* Classifier model: getFeedsToRefresh applied to feed tables whose         *)
(* lastFetched values sit on, just inside and just outside the window, once *)
(* with the window of the code and once with the window tuned to 30 minutes.*)

ClsNow == 4 * HOUR

ClsTimes ==
    { NULL, 0, ClsNow - CACHE_WINDOW - 1, ClsNow - CACHE_WINDOW, ClsNow - HOUR,
      ClsNow - HALF_HOUR - 1, ClsNow - HALF_HOUR }

ClsIdSets == SUBSET (FeedIds \cup {"FX"}) \ {{}}

InitCls ==
    /\ now = ClsNow
    /\ \E lf \in [FeedIds -> ClsTimes] :
         rssFeed = [f \in FeedIds |->
                      [url |-> FeedUrl(f), lastFetched |-> lf[f], isActive |-> TRUE,
                       meta |-> NoMetadata]]
    /\ rssArticle = <<>>
    /\ req = [r \in Reqs |-> NoReq]
    /\ task = [r \in Reqs |-> [f \in FeedIds |-> NoTask]]
    /\ faults = 0
    /\ cls = NoCls
    /\ route = NoRoute
    /\ parsed = NoParsed
    /\ query = NoQuery
    /\ sweep = NoSweep
    /\ client = NoClient
    /\ newsletter = NoNewsletters
    /\ action = NoAction

Classify(ids) ==
    /\ cls' = [feedIds |-> ids, window |-> CACHE_WINDOW, out |-> getFeedsToRefresh(ids)]
    /\ UNCHANGED <<now, rssFeed, rssArticle, req, task, faults, route, parsed, query,
                  sweep, client, newsletter, action>>

ClassifyTuned(ids) ==
    /\ cls' = [feedIds |-> ids, window |-> HALF_HOUR,
               out |-> FeedsToRefresh(FeedOrder, ids, rssFeed, now, HALF_HOUR)]
    /\ UNCHANGED <<now, rssFeed, rssArticle, req, task, faults, route, parsed, query,
                  sweep, client, newsletter, action>>

NextCls ==
    \/ \E ids \in ClsIdSets : Classify(ids)
    \/ \E ids \in ClsIdSets : ClassifyTuned(ids)

SpecClassify == InitCls /\ [][NextCls]_vars

------------------------------------------------------------------------------
(* Retrieval model: getArticlesByFeedsAndDateRange applied to stores of up  *)
(* to MaxRows articles, with publish dates before, on and after the bounds  *)
(* of the date ranges, and with caps below the number of stored rows.       *)

GuidNames == <<"g1", "g2", "g3", "g4", "g5">>

(* The feeds that sighted a row, in order: the first created it. *)
QrySources == { <<"F1">>, <<"F3">>, <<"F3", "F1">> }
QryDates == { 10, 20, 30 }
QryWindows == { <<0, 40>>, <<20, 30>>, <<10, 20>> }
QryLimits == { 1, 2, ARTICLE_LIMIT }
QryIdSets == { {"F1"}, {"F2"}, {"F1", "F3"} }

Sighting(f, g, d) ==
    [feedId |-> f, guid |-> g, title |-> Item(g, FeedUrl(f), d).title,
     link |-> Item(g, FeedUrl(f), d).link, content |-> Item(g, FeedUrl(f), d).content,
     summary |-> Item(g, FeedUrl(f), d).summary, pubDate |-> d,
     author |-> Item(g, FeedUrl(f), d).author,
     categories |-> Item(g, FeedUrl(f), d).categories,
     imageUrl |-> Item(g, FeedUrl(f), d).imageUrl]

RECURSIVE Pushes(_, _, _)
Pushes(row, srcs, d) ==
    IF srcs = <<>> THEN row
    ELSE Pushes(updateRow(row, Sighting(Head(srcs), row.guid, d)), Tail(srcs), d)

(* The row that the upserts of guid g by the feeds srcs leave in the store. *)
StoreRow(g, srcs, d) == Pushes(createRow(Sighting(Head(srcs), g, d)), Tail(srcs), d)

QryStores ==
    UNION { { [ i \in 1..n |-> StoreRow(GuidNames[i], c[i][1], c[i][2]) ] :
                c \in [1..n -> QrySources \X QryDates] } : n \in 0..MaxRows }

InitRetrieve ==
    /\ now = 0
    /\ rssFeed = [f \in FeedIds |->
                    [url |-> FeedUrl(f), lastFetched |-> 0, isActive |-> TRUE,
                       meta |-> NoMetadata]]
    /\ rssArticle \in QryStores
    /\ req = [r \in Reqs |-> NoReq]
    /\ task = [r \in Reqs |-> [f \in FeedIds |-> NoTask]]
    /\ faults = 0
    /\ cls = NoCls
    /\ route = NoRoute
    /\ parsed = NoParsed
    /\ query = NoQuery
    /\ sweep = NoSweep
    /\ client = NoClient
    /\ newsletter = NoNewsletters
    /\ action = NoAction

(* One call on the drawn store. *)
Query(ids, w, limit) ==
    /\ query = NoQuery
    /\ query' = [feedIds |-> ids, startDate |-> w[1], endDate |-> w[2], limit |-> limit,
                 out |-> getArticlesByFeedsAndDateRange(ids, w[1], w[2], limit)]
    /\ UNCHANGED <<now, rssFeed, rssArticle, req, task, faults, cls, route, parsed,
                  sweep, client, newsletter, action>>

NextRetrieve == \E ids \in QryIdSets, w \in QryWindows, limit \in QryLimits : Query(ids, w, limit)

SpecRetrieve == InitRetrieve /\ [][NextRetrieve]_vars

------------------------------------------------------------------------------
(* Refresh model: fetchAndStoreFeed called directly (as validateAndAddFeed  *)
(* and fetchAllUserFeeds call it) for any feed id, by two callers at a      *)
(* time, on feed tables where a row may be missing or switched off.         *)

MissingSets == {{}} \cup { {f} : f \in FeedIds }

InitFetch ==
    /\ now = 0
    /\ \E gone \in MissingSets, off \in InactiveSets :
         rssFeed = [f \in FeedIds \ gone |->
                      [url |-> FeedUrl(f), lastFetched |-> NULL, isActive |-> f \notin off,
                       meta |-> NoMetadata]]
    /\ rssArticle = <<>>
    /\ req = [r \in Reqs |-> NoReq]
    /\ task = [r \in Reqs |-> [f \in FeedIds |-> NoTask]]
    /\ faults = 0
    /\ cls = NoCls
    /\ route = NoRoute
    /\ parsed = NoParsed
    /\ query = NoQuery
    /\ sweep = NoSweep
    /\ client = NoClient
    /\ newsletter = NoNewsletters
    /\ action = NoAction

(* A caller invokes fetchAndStoreFeed(f). *)
StartFetch(r, f) ==
    /\ req[r].pc = "idle"
    /\ req' = [req EXCEPT ![r] = [@ EXCEPT !.pc = "direct", !.feedIds = {f}, !.stale = <<f>>]]
    /\ task' = [task EXCEPT ![r][f] = [NoTask EXCEPT !.pc = "start"]]
    /\ UNCHANGED <<now, rssFeed, rssArticle, faults, cls, route, parsed, query,
                  sweep, client, newsletter, action>>

NextFetch ==
    \/ \E r \in Reqs, f \in FeedIds : StartFetch(r, f)
    \/ \E r \in Reqs, f \in FeedIds : FetchFeed(r, f)
    \/ \E r \in Reqs, f \in FeedIds : UpsertFind(r, f)
    \/ \E r \in Reqs, f \in FeedIds : UpsertWrite(r, f)
    \/ \E r \in Reqs, f \in FeedIds : UpsertFault(r, f)
    \/ \E r \in Reqs, f \in FeedIds : StampFeed(r, f)

SpecFetch == InitFetch /\ [][NextFetch]_vars

------------------------------------------------------------------------------
(* Parser model: extractArticles applied to one item whose guid, link and   *)
(* title are each absent, empty or present.                                 *)

ItemGuids == { Absent, Str(<<>>), Str(<<"urn:item:1">>) }
ItemLinks == { Absent, Str(<<>>), Str(<<"https://example.com/1">>) }
ItemTitles == { Absent, Str(<<>>), Str(<<"Hello">>) }

(* The link preferred to the guid. *)
extractGuid_LinkFirst(item, feedId) ==
    IF Truthy(item.link) THEN item.link.chars
    ELSE IF Truthy(item.guid) THEN item.guid.chars
    ELSE <<feedId, "-">> \o Template(item.title)

(* item.guid || item.link || `${feedId}-${item.title}` *)
extractGuid(item, feedId) ==
    IF Truthy(item.guid) THEN item.guid.chars
    ELSE IF Truthy(item.link) THEN item.link.chars
    ELSE <<feedId, "-">> \o Template(item.title)

(* The fields of the article that derive from guid, link and title. *)
extractArticle(item, feedId) ==
    [guid |-> extractGuid(item, feedId),
     title |-> IF Truthy(item.title) THEN item.title.chars ELSE <<"Untitled">>,
     link |-> IF Truthy(item.link) THEN item.link.chars ELSE <<>>]

InitParser ==
    /\ now = 0
    /\ rssFeed = [f \in FeedIds |->
                    [url |-> FeedUrl(f), lastFetched |-> NULL, isActive |-> TRUE,
                       meta |-> NoMetadata]]
    /\ rssArticle = <<>>
    /\ req = [r \in Reqs |-> NoReq]
    /\ task = [r \in Reqs |-> [f \in FeedIds |-> NoTask]]
    /\ faults = 0
    /\ cls = NoCls
    /\ route = NoRoute
    /\ \E g \in ItemGuids, l \in ItemLinks, t \in ItemTitles, f \in FeedIds :
         parsed = [item |-> [guid |-> g, link |-> l, title |-> t], feedId |-> f, out |-> <<>>]
    /\ query = NoQuery
    /\ sweep = NoSweep
    /\ client = NoClient
    /\ newsletter = NoNewsletters
    /\ action = NoAction

(* feed.items.map(...) on the one item of the document. *)
ExtractArticles ==
    /\ parsed.out = <<>>
    /\ parsed' = [parsed EXCEPT !.out = << extractArticle(parsed.item, parsed.feedId) >>]
    /\ UNCHANGED <<now, rssFeed, rssArticle, req, task, faults, cls, route, query,
                  sweep, client, newsletter, action>>

NextParser == ExtractArticles

SpecParser == InitParser /\ [][NextParser]_vars

------------------------------------------------------------------------------
(* Endpoint model: POST /api/newsletter/generate-stream serving one request *)
(* whose pipeline pass is the request R1 of the pipeline model.             *)

RouteReq == "R1"

RouteIdLists == { <<"F1", "F3">>, <<"F1", "F2">> }

BodyFeedIds ==
    { [kind |-> "missing", ids |-> <<>>], [kind |-> "string", ids |-> <<>>],
      [kind |-> "array", ids |-> <<>>] }
    \cup { [kind |-> "array", ids |-> l] : l \in RouteIdLists }

(* Date strings of the body, written as the one-element sequence of the     *)
(* instant they denote; "" is the empty sequence.                           *)
BodyStarts == { Absent, Str(<<>>), Str(<<0>>), Str(<<20>>) }
BodyEnds == { Absent, Str(<<30>>), Str(<<40>>) }

Bodies == [feedIds : BodyFeedIds, startDate : BodyStarts, endDate : BodyEnds]

(* auth() and getUserByClerkId: no session, a session without a user row,   *)
(* a session with one.                                                      *)
Callers == { "anon", "nouser", "user" }

(* new Date(startDate) *)
DateOf(s) == IF Truthy(s) THEN s.chars[1] ELSE 0

(* The date check left out of the validation. *)
bodyInvalid_FeedsOnly(b) ==
    b.feedIds.kind = "missing" \/ b.feedIds.kind # "array" \/ Len(b.feedIds.ids) = 0

(* The two validation tests of POST. *)
bodyInvalid(b) ==
    \/ (b.feedIds.kind = "missing" \/ b.feedIds.kind # "array" \/ Len(b.feedIds.ids) = 0)
    \/ (~Truthy(b.startDate) \/ ~Truthy(b.endDate))

Event(type, n, msg) == [type |-> type, n |-> n, error |-> msg]

(* controller.enqueue *)
Emit(rt, e) == [rt EXCEPT !.events = Append(@, e)]

(* The catch block of start(): the error event, then controller.close(). *)
Fail(rt, msg) ==
    [rt EXCEPT !.events = Append(@, Event("error", 0, msg)), !.closed = TRUE, !.pc = "closed"]

(* POST up to the Response it returns: 400 from the validation, or the      *)
(* event stream.                                                            *)
RouteReceive(body, caller) ==
    /\ route.pc = "none"
    /\ route' = IF bodyInvalid(body)
                THEN [route EXCEPT !.pc = "responded", !.body = body, !.caller = caller,
                                   !.status = 400]
                ELSE [route EXCEPT !.pc = "classify", !.body = body, !.caller = caller,
                                   !.status = 200]
    /\ UNCHANGED <<now, rssFeed, rssArticle, req, task, faults, cls, parsed, query,
                  sweep, client, newsletter, action>>

(* req.json() throws: the outer catch answers 500. *)
RouteBadJson ==
    /\ route.pc = "none"
    /\ route' = [route EXCEPT !.pc = "responded", !.status = 500]
    /\ UNCHANGED <<now, rssFeed, rssArticle, req, task, faults, cls, parsed, query,
                  sweep, client, newsletter, action>>

(* The analyzing event sent ahead of the refreshing event. *)
RouteClassify_AnalyzingFirst ==
    /\ route.pc = "classify"
    /\ LET feedsToRefresh == getFeedsToRefresh(Range(route.body.feedIds.ids))
           refreshing == IF Len(feedsToRefresh) > 0
                         THEN << Event("refreshing", Len(feedsToRefresh), "") >> ELSE <<>> IN
       route' = [route EXCEPT !.pc = "auth",
                              !.events = @ \o << Event("analyzing", Len(route.body.feedIds.ids), "") >>
                                           \o refreshing]
    /\ UNCHANGED <<now, rssFeed, rssArticle, req, task, faults, cls, parsed, query,
                  sweep, client, newsletter, action>>

(* start(): getFeedsToRefresh, the refreshing event when a feed is stale,   *)
(* the analyzing event.                                                     *)
RouteClassify ==
    /\ route.pc = "classify"
    /\ LET feedsToRefresh == getFeedsToRefresh(Range(route.body.feedIds.ids))
           refreshing == IF Len(feedsToRefresh) > 0
                         THEN << Event("refreshing", Len(feedsToRefresh), "") >> ELSE <<>> IN
       route' = [route EXCEPT !.pc = "auth",
                              !.events = @ \o refreshing
                                           \o << Event("analyzing", Len(route.body.feedIds.ids), "") >>]
    /\ UNCHANGED <<now, rssFeed, rssArticle, req, task, faults, cls, parsed, query,
                  sweep, client, newsletter, action>>

(* getFeedsToRefresh throws (the database is unreachable). *)
RouteClassifyFail ==
    /\ route.pc = "classify"
    /\ route' = Fail(route, "Can't reach database server")
    /\ UNCHANGED <<now, rssFeed, rssArticle, req, task, faults, cls, parsed, query,
                  sweep, client, newsletter, action>>

(* A preparation that goes on to the pass whoever the caller is. *)
RouteAuth_Open ==
    /\ route.pc = "auth"
    /\ route' = [route EXCEPT !.pc = "prepare"]
    /\ UNCHANGED <<now, rssFeed, rssArticle, req, task, faults, cls, parsed, query,
                  sweep, client, newsletter, action>>

(* prepareFeedsForGeneration up to prepareFeedsAndArticles. *)
RouteAuth ==
    /\ route.pc = "auth"
    /\ route' = IF route.caller = "anon" THEN Fail(route, "User not authenticated")
                ELSE IF route.caller = "nouser" THEN Fail(route, "User not found in database")
                ELSE [route EXCEPT !.pc = "prepare"]
    /\ UNCHANGED <<now, rssFeed, rssArticle, req, task, faults, cls, parsed, query,
                  sweep, client, newsletter, action>>

(* prepareFeedsAndArticles({feedIds, startDate, endDate}) *)
RoutePrepare ==
    /\ route.pc = "prepare"
    /\ PrepareStart(RouteReq, Range(route.body.feedIds.ids))

RouteRetrieve ==
    /\ route.pc = "prepare"
    /\ Retrieve(RouteReq, <<DateOf(route.body.startDate), DateOf(route.body.endDate)>>)

(* The pass returned or threw; generateNewsletterFromPreparedData; the      *)
(* metadata event.                                                          *)
RouteGenerate ==
    /\ route.pc = "prepare"
    /\ req[RouteReq].pc = "done"
    /\ IF req[RouteReq].result.status = "error"
       THEN route' = Fail(route, req[RouteReq].result.error)
       ELSE \/ route' = Fail(route, "streamObject failed")
            \/ route' = [Emit(route, Event("metadata", Len(req[RouteReq].result.articles), ""))
                            EXCEPT !.pc = "stream"]
    /\ UNCHANGED <<now, rssFeed, rssArticle, req, task, faults, cls, parsed, query,
                  sweep, client, newsletter, action>>

(* One iteration of for await (const partialObject of stream). *)
RoutePartial ==
    /\ route.pc = "stream"
    /\ Cardinality({ i \in 1..Len(route.events) : route.events[i].type = "partial" }) < MaxPartials
    /\ route' = Emit(route, Event("partial", 0, ""))
    /\ UNCHANGED <<now, rssFeed, rssArticle, req, task, faults, cls, parsed, query,
                  sweep, client, newsletter, action>>

(* A failure of the partial-object stream that sends the error event and    *)
(* goes on reading the stream.                                              *)
RouteStreamFail_Continue ==
    /\ route.pc = "stream"
    /\ \A i \in 1..Len(route.events) : route.events[i].type # "error"
    /\ route' = Emit(route, Event("error", 0, "stream failed"))
    /\ UNCHANGED <<now, rssFeed, rssArticle, req, task, faults, cls, parsed, query,
                  sweep, client, newsletter, action>>

(* The partial-object stream throws midway. *)
RouteStreamFail ==
    /\ route.pc = "stream"
    /\ route' = Fail(route, "stream failed")
    /\ UNCHANGED <<now, rssFeed, rssArticle, req, task, faults, cls, parsed, query,
                  sweep, client, newsletter, action>>

(* The stream ended: the complete event, then controller.close(). *)
RouteComplete ==
    /\ route.pc = "stream"
    /\ route' = [Emit(route, Event("complete", 0, "")) EXCEPT !.closed = TRUE, !.pc = "closed"]
    /\ UNCHANGED <<now, rssFeed, rssArticle, req, task, faults, cls, parsed, query,
                  sweep, client, newsletter, action>>

NextStream ==
    \/ \E body \in Bodies, caller \in Callers : RouteReceive(body, caller)
    \/ RouteBadJson
    \/ RouteClassify
    \/ RouteClassifyFail
    \/ RouteAuth
    \/ RoutePrepare
    \/ \E f \in FeedIds : FetchFeed(RouteReq, f)
    \/ \E f \in FeedIds : UpsertFind(RouteReq, f)
    \/ \E f \in FeedIds : UpsertWrite(RouteReq, f)
    \/ \E f \in FeedIds : UpsertFault(RouteReq, f)
    \/ \E f \in FeedIds : StampFeed(RouteReq, f)
    \/ RefreshSettled(RouteReq)
    \/ RouteRetrieve
    \/ RouteGenerate
    \/ RoutePartial
    \/ RouteStreamFail
    \/ RouteComplete

SpecStream == Init /\ [][NextStream]_vars

------------------------------------------------------------------------------
(* Definitions shared by the properties *)

TaskIds == Reqs \X FeedIds

(* Upserts of guid g that ran to an outcome of the store (created, appended *)
(* or rejected by the unique index), over all batches.                      *)
Sightings(g) ==
    Cardinality(UNION { { <<x, i>> : i \in { j \in 1..Len(task[x[1]][x[2]].log) :
                                              /\ task[x[1]][x[2]].batch[j].guid = g
                                              /\ task[x[1]][x[2]].log[j] # "fault" } } :
                        x \in TaskIds })

(* Upserts of guid g that returned normally. *)
Performed(g) ==
    Cardinality(UNION { { <<x, i>> : i \in { j \in 1..Len(task[x[1]][x[2]].log) :
                                              /\ task[x[1]][x[2]].batch[j].guid = g
                                              /\ task[x[1]][x[2]].log[j] = "ok" } } :
                        x \in TaskIds })

SourceIds(g) == { rssArticle[i].sourceFeedIds : i \in GuidIndex(g) }

FetchedTimes(u) ==
    { rssFeed[g].lastFetched :
        g \in { h \in FeedIds : rssFeed[h].url = u /\ rssFeed[h].lastFetched # NULL } }

MaxOf(S) == CHOOSE x \in S : \A y \in S : y <= x

StaleByPolicy(f, w) ==
    \/ FetchedTimes(rssFeed[f].url) = {}
    \/ now - MaxOf(FetchedTimes(rssFeed[f].url)) > w

------------------------------------------------------------------------------
(* C1: whatever the interleaving of the upserts, the store never holds two  *)
(* rows with the same guid.                                                 *)
C1_OneRowPerGuid == \A g \in Guids : Cardinality(GuidIndex(g)) <= 1

(* A guid sighted by two different feeds, still in one row. *)
C1_Witness ==
    \E i \in 1..Len(rssArticle) : Cardinality(Range(rssArticle[i].sourceFeedIds)) >= 2

(* C2: every upsert of a guid that reached the store leaves one entry in    *)
(* the source set of the single row of that guid: N sightings, N entries.   *)
C2_NoLostAppend ==
    \A g \in Guids :
        Sightings(g) > 0 =>
            /\ Cardinality(GuidIndex(g)) = 1
            /\ \A i \in GuidIndex(g) : Len(rssArticle[i].sourceFeedIds) = Sightings(g)

(* C3: in every batch, skipped counts the uniqueness conflicts, errors the  *)
(* other failures, created the upserts that succeeded.                      *)
C3_OutcomeCounts ==
    \A x \in TaskIds :
        LET t == task[x[1]][x[2]] IN
        /\ t.skipped = Count(t.log, "P2002")
        /\ t.errors = Count(t.log, "fault")
        /\ t.created = Count(t.log, "ok")

(* C4: a step changes a stored article only by appending the id of the feed *)
(* whose upsert took the step to its source set; every other field keeps    *)
(* the value of the first sighting, and no row disappears.                  *)
C4_FirstWriterWins ==
    [][ /\ Len(rssArticle') >= Len(rssArticle)
        /\ \A i \in 1..Len(rssArticle) :
             \/ rssArticle'[i] = rssArticle[i]
             \/ \E x \in TaskIds :
                  /\ task[x[1]][x[2]].pc = "write"
                  /\ task'[x[1]][x[2]] # task[x[1]][x[2]]
                  /\ rssArticle'[i] =
                       [rssArticle[i] EXCEPT !.sourceFeedIds = Append(@, x[2])] ]_vars

(* A row first written from one URL and later sighted through the other.    *)
C4_Witness ==
    \E i \in 1..Len(rssArticle) :
        /\ \E f \in Range(rssArticle[i].sourceFeedIds) :
             FeedUrl(f) # FeedUrl(rssArticle[i].feedId)
        /\ rssArticle[i].title = <<"title", rssArticle[i].guid, FeedUrl(rssArticle[i].feedId)>>

(* C5: the sourceCount a retrieval returns for an article is the number of  *)
(* upserts of its guid that have returned normally by then, repeated feeds  *)
(* included.                                                                *)
C5_SourceCountIsUpserts ==
    [][ \A r \in Reqs :
          (req[r].pc = "retrieve" /\ req'[r].pc = "done") =>
              \A j \in 1..Len(req'[r].result.articles) :
                  req'[r].result.articles[j].sourceCount =
                      Performed(req'[r].result.articles[j].guid) ]_vars

(* F1, then F2, then F1 again: a retrieval reports 3. *)
C5_Witness ==
    \E r \in Reqs :
        /\ req[r].pc = "done"
        /\ \E j \in 1..Len(req[r].result.articles) :
             /\ req[r].result.articles[j].sourceCount = 3
             /\ SourceIds(req[r].result.articles[j].guid) = { <<"F1", "F2", "F1">> }

(* C6: with the window of the code (3 hours), a requested feed is returned  *)
(* exactly when no feed of its URL was ever fetched or the latest fetch of  *)
(* that URL is more than the window old; the result lists only requested    *)
(* ids, each once.                                                          *)
C6_StaleIffPolicy ==
    (cls.feedIds # {} /\ cls.window = CACHE_WINDOW) =>
        /\ CACHE_WINDOW = 3 * HOUR
        /\ Range(cls.out) \subseteq cls.feedIds
        /\ Len(cls.out) = Cardinality(Range(cls.out))
        /\ \A f \in cls.feedIds \cap FeedIds :
             f \in Range(cls.out) <=> StaleByPolicy(f, 3 * HOUR)

(* One URL fetched exactly a window ago (fresh), the other a millisecond    *)
(* earlier (stale), and an id that is no feed among the requested ones.     *)
C6_Witness ==
    /\ cls.window = CACHE_WINDOW
    /\ cls.feedIds = {"F1", "F3", "FX"}
    /\ FetchedTimes("U1") # {} /\ now - MaxOf(FetchedTimes("U1")) = CACHE_WINDOW
    /\ FetchedTimes("U2") # {} /\ now - MaxOf(FetchedTimes("U2")) = CACHE_WINDOW + 1
    /\ cls.out = <<"F3">>

(* C7: a never-fetched feed whose URL a sibling has fetched is judged by    *)
(* the sibling's latest fetch: F1 fetched an hour ago and F2 never, [F2] is *)
(* not stale under the 3-hour window and stale under a 30-minute window.    *)
C7_SharedUrlFreshness ==
    cls.feedIds # {} =>
        /\ \A f \in cls.feedIds \cap FeedIds :
             (rssFeed[f].lastFetched = NULL /\ FetchedTimes(rssFeed[f].url) # {}) =>
                 /\ mostRecentFetch(rssFeed, rssFeed[f].url) = MaxOf(FetchedTimes(rssFeed[f].url))
                 /\ f \in Range(cls.out) <=>
                        now - MaxOf(FetchedTimes(rssFeed[f].url)) > cls.window
        /\ ( /\ cls.feedIds = {"F2"}
             /\ rssFeed["F2"].lastFetched = NULL
             /\ rssFeed["F1"].lastFetched = now - HOUR ) =>
                 /\ cls.window = CACHE_WINDOW => cls.out = <<>>
                 /\ cls.window = HALF_HOUR => cls.out = <<"F2">>

C7_Witness ==
    /\ cls.feedIds = {"F2"}
    /\ cls.window = CACHE_WINDOW
    /\ rssFeed["F2"].lastFetched = NULL
    /\ rssFeed["F1"].lastFetched = now - HOUR
    /\ cls.out = <<>>

(* C8: a request whose feeds are all fresh because a sibling subscription   *)
(* to the same URL was refreshed returns every article in its date range    *)
(* that the sibling's refresh stored.                                       *)
C8_SharedRefreshServes ==
    [][ \A r \in Reqs :
          (req[r].pc = "retrieve" /\ req'[r].pc = "done" /\ req[r].stale = <<>>) =>
              \A f \in req[r].feedIds : \A g \in FeedIds \ req[r].feedIds :
                  (rssFeed[g].url = rssFeed[f].url /\ rssFeed[g].lastFetched # NULL) =>
                      \A i \in 1..Len(rssArticle) :
                          ( /\ g \in Range(rssArticle[i].sourceFeedIds)
                            /\ rssArticle[i].pubDate >= req'[r].startDate
                            /\ rssArticle[i].pubDate <= req'[r].endDate ) =>
                              \E j \in 1..Len(req'[r].result.articles) :
                                  req'[r].result.articles[j].guid = rssArticle[i].guid ]_vars

NoArticles == "No articles found for the selected feeds and date range"

(* The next step of one refresh, whatever it is. *)
RefreshStep(r, f) ==
    FetchFeed(r, f) \/ UpsertFind(r, f) \/ UpsertWrite(r, f) \/ StampFeed(r, f)

(* C9: in a pass every stale feed's refresh is started, and a refresh that  *)
(* has not settled can always take its next step, whatever happened to its  *)
(* siblings; the pass goes on only when each of them has fulfilled or       *)
(* rejected; a refresh that fulfilled has attempted its whole batch and     *)
(* written lastFetched; the counts are those of the fulfilled and the       *)
(* rejected refreshes; the only error the pass raises is the empty-result   *)
(* error.                                                                   *)
C9_SettleAll ==
    \A r \in Reqs :
        /\ req[r].pc # "idle" => \A f \in Range(req[r].stale) : task[r][f].pc # "none"
        /\ \A f \in FeedIds :
             task[r][f].pc \notin {"none", "fulfilled", "rejected"} => ENABLED RefreshStep(r, f)
        /\ req[r].pc \in {"retrieve", "done"} =>
             /\ \A f \in Range(req[r].stale) : task[r][f].pc \in {"fulfilled", "rejected"}
             /\ req[r].successful =
                    Cardinality({f \in Range(req[r].stale) : task[r][f].pc = "fulfilled"})
             /\ req[r].failed =
                    Cardinality({f \in Range(req[r].stale) : task[r][f].pc = "rejected"})
             /\ req[r].successful + req[r].failed = Len(req[r].stale)
        /\ \A f \in FeedIds :
             task[r][f].pc = "fulfilled" =>
                 /\ Len(task[r][f].log) = Len(task[r][f].batch)
                 /\ Len(task[r][f].batch) = Len(Document(rssFeed[f].url))
                 /\ rssFeed[f].lastFetched # NULL
        /\ req[r].result.status = "error" => req[r].result.error = NoArticles

(* {A succeeds, B throws}: successful = 1, failed = 1, and the pass ended   *)
(* with articles.                                                           *)
C9_Witness ==
    \E r \in Reqs :
        /\ req[r].pc = "done"
        /\ req[r].successful = 1
        /\ req[r].failed = 1
        /\ req[r].result.status = "ok"

(* C10: the refresh of an inactive feed rejects in its first step without   *)
(* fetching the document, writing an article or touching lastFetched, and   *)
(* a rejected refresh is never taken up again.                              *)
C10_InactiveRejected ==
    [][ \A x \in TaskIds :
          LET t == task[x[1]][x[2]]
              u == task'[x[1]][x[2]] IN
          /\ (t.pc = "start" /\ ~rssFeed[x[2]].isActive /\ u # t) =>
                 /\ u.pc = "rejected"
                 /\ ~u.fetched
                 /\ u.batch = <<>> /\ u.log = <<>>
                 /\ rssArticle' = rssArticle
                 /\ rssFeed' = rssFeed
          /\ t.pc = "rejected" => u = t ]_vars

C10_Witness ==
    \E x \in TaskIds :
        /\ task[x[1]][x[2]].pc = "rejected"
        /\ ~rssFeed[x[2]].isActive
        /\ rssFeed[x[2]].lastFetched = NULL
        /\ req[x[1]].pc = "done"

(* Rows of the store that the retrieval in `query` has to consider: related *)
(* to a requested feed and published inside the range.                      *)
QueryHits ==
    { i \in 1..Len(rssArticle) :
        /\ \/ rssArticle[i].feedId \in query.feedIds
           \/ \E k \in 1..Len(rssArticle[i].sourceFeedIds) :
                rssArticle[i].sourceFeedIds[k] \in query.feedIds
        /\ query.startDate <= rssArticle[i].pubDate
        /\ rssArticle[i].pubDate <= query.endDate }

MinOf2(a, b) == IF a <= b THEN a ELSE b

(* C11: a windowed retrieval returns no article published before start or   *)
(* after end, keeps the articles published exactly at start or at end when  *)
(* the cap leaves room, returns at most `limit` articles (100 by default    *)
(* and in the pipeline), and its result is sorted by non-increasing date.   *)
C11_WindowCapOrder ==
    query.limit > 0 =>
        /\ \A j \in 1..Len(query.out) :
             /\ query.out[j].pubDate >= query.startDate
             /\ query.out[j].pubDate <= query.endDate
        /\ Len(query.out) <= query.limit
        /\ ARTICLE_LIMIT = 100
        /\ \A j \in 1..(Len(query.out) - 1) :
             query.out[j].pubDate >= query.out[j + 1].pubDate
        /\ Len(query.out) < query.limit =>
             \A i \in QueryHits :
                 rssArticle[i].pubDate \in {query.startDate, query.endDate} =>
                     \E j \in 1..Len(query.out) : query.out[j].guid = rssArticle[i].guid

(* Three related rows published at start, at end and before start; the cap  *)
(* of 1 cuts the two in range down to the later one.                        *)
C11_Witness ==
    /\ query.limit = 1
    /\ query.startDate = 20 /\ query.endDate = 30
    /\ Cardinality(QueryHits) = 2
    /\ \E i \in 1..Len(rssArticle) :
         rssArticle[i].feedId \in query.feedIds /\ rssArticle[i].pubDate = 10
    /\ \E i \in QueryHits : rssArticle[i].pubDate = 20
    /\ Len(query.out) = 1
    /\ query.out[1].pubDate = 30

(* C12: a retrieval returns only articles of the range whose primary feed   *)
(* is requested or whose source set holds a requested id, each once, and    *)
(* all of them up to the cap: an article created by an unrequested feed and *)
(* later sighted by a requested one is returned, an article related to no   *)
(* requested feed never is.                                                 *)
C12_MatchByPrimaryOrSource ==
    query.limit > 0 =>
        /\ \A j \in 1..Len(query.out) :
             \E i \in QueryHits : rssArticle[i].guid = query.out[j].guid
        /\ Cardinality({ query.out[j].guid : j \in 1..Len(query.out) }) = Len(query.out)
        /\ Len(query.out) = MinOf2(Cardinality(QueryHits), query.limit)

(* [F1] requested: the row that F3 created and F1 sighted later is          *)
(* returned, the row that only F3 sighted is not.                           *)
C12_Witness ==
    /\ query.feedIds = {"F1"}
    /\ query.limit = ARTICLE_LIMIT
    /\ \E i \in QueryHits :
         /\ rssArticle[i].feedId = "F3"
         /\ rssArticle[i].sourceFeedIds = <<"F3", "F1">>
         /\ \E j \in 1..Len(query.out) : query.out[j].guid = rssArticle[i].guid
    /\ \E i \in 1..Len(rssArticle) :
         /\ rssArticle[i].sourceFeedIds = <<"F3">>
         /\ query.startDate <= rssArticle[i].pubDate
         /\ rssArticle[i].pubDate <= query.endDate
         /\ \A j \in 1..Len(query.out) : query.out[j].guid # rssArticle[i].guid

(* Rows related to the feeds of request r and published in its date range,  *)
(* in the store as the step that reads it finds it.                         *)
RequestHits(r, startDate, endDate) ==
    { i \in 1..Len(rssArticle) :
        /\ \/ rssArticle[i].feedId \in req[r].feedIds
           \/ Range(rssArticle[i].sourceFeedIds) \cap req[r].feedIds # {}
        /\ startDate <= rssArticle[i].pubDate
        /\ rssArticle[i].pubDate <= endDate }

------------------------------------------------------------------------------
(* The event stream of the endpoint *)

EventTypes == [ i \in 1..Len(route.events) |-> route.events[i].type ]

Occurs(t) == Cardinality({ i \in 1..Len(route.events) : route.events[i].type = t })

Terminals == { i \in 1..Len(route.events) : route.events[i].type \in {"complete", "error"} }

(* The phase of an event type in the order of the lifecycle. *)
Rank(t) ==
    CASE t = "refreshing" -> 1
      [] t = "analyzing" -> 2
      [] t = "metadata" -> 3
      [] t = "partial" -> 4
      [] OTHER -> 5

(* C14, as stated: the events of every stream that has ended are zero or    *)
(* one refreshing, one analyzing, one metadata, zero or more partial, then  *)
(* one of complete or error, on the failure paths too.                      *)
C14_FixedEventOrder ==
    route.closed =>
        LET ev == EventTypes
            k == Occurs("refreshing") IN
        /\ k <= 1
        /\ k = 1 => ev[1] = "refreshing"
        /\ Len(ev) >= k + 3
        /\ ev[k + 1] = "analyzing"
        /\ ev[k + 2] = "metadata"
        /\ \A i \in (k + 3)..(Len(ev) - 1) : ev[i] = "partial"
        /\ ev[Len(ev)] \in {"complete", "error"}

(* C14, amended: the events follow the order refreshing, analyzing,         *)
(* metadata, partial, terminal, with at most one refreshing, analyzing,     *)
(* metadata and terminal event; a stream that ends with complete has one    *)
(* analyzing and one metadata; a stream that ends with error is that order  *)
(* cut short where the failure happened: partial only after metadata,       *)
(* metadata only after analyzing, refreshing only right before analyzing.   *)
C14_EventOrderUpToFailure ==
    route.status = 200 =>
        LET ev == EventTypes IN
        /\ \A i \in 1..Len(ev) : \A j \in i..Len(ev) : Rank(ev[i]) <= Rank(ev[j])
        /\ Occurs("refreshing") <= 1
        /\ Occurs("analyzing") <= 1
        /\ Occurs("metadata") <= 1
        /\ Occurs("complete") + Occurs("error") <= 1
        /\ Occurs("refreshing") = 1 => Occurs("analyzing") = 1
        /\ Occurs("metadata") = 1 => Occurs("analyzing") = 1
        /\ Occurs("partial") > 0 => Occurs("metadata") = 1
        /\ Occurs("complete") = 1 => Occurs("metadata") = 1
        /\ route.closed => Occurs("complete") + Occurs("error") = 1

(* The pass found no article: refreshing, analyzing, error, no metadata. *)
C14_Witness ==
    /\ route.closed
    /\ EventTypes = <<"refreshing", "analyzing", "error">>
    /\ route.events[3].error = NoArticles

(* C15: a stream has at most one terminal event, complete or error and      *)
(* never both; the terminal event is the last event and the stream is       *)
(* closed with it; a closed stream takes no further step, and a stream      *)
(* that is not closed can always take one, whichever step failed.           *)
C15_OneTerminalThenClose ==
    route.status = 200 =>
        /\ Cardinality(Terminals) <= 1
        /\ route.closed <=> Cardinality(Terminals) = 1
        /\ \A i \in Terminals : i = Len(route.events)
        /\ ~(Occurs("complete") > 0 /\ Occurs("error") > 0)
        /\ route.closed => ~ENABLED NextStream
        /\ ~route.closed => ENABLED NextStream

(* The partial-object stream failed after a partial event. *)
C15_Witness ==
    /\ route.closed
    /\ Occurs("partial") >= 1
    /\ Occurs("error") = 1
    /\ route.events[Len(route.events)].error = "stream failed"

(* C16: a request whose feedIds is missing, not an array or empty, or whose *)
(* startDate or endDate is missing, is answered 400 without a stream; no    *)
(* classification, pass, refresh or write happens for it and no event is    *)
(* sent.                                                                    *)
C16_ValidationRejects ==
    ( /\ route.pc # "none"
      /\ route.status # 500
      /\ \/ route.body.feedIds.kind = "missing"
         \/ route.body.feedIds.kind # "array"
         \/ Len(route.body.feedIds.ids) = 0
         \/ ~route.body.startDate.present
         \/ ~route.body.endDate.present ) =>
        /\ route.status = 400
        /\ route.pc = "responded"
        /\ route.events = <<>>
        /\ ~route.closed
        /\ req[RouteReq] = NoReq
        /\ \A f \in FeedIds : task[RouteReq][f] = NoTask
        /\ rssArticle = <<>>
        /\ \A f \in FeedIds : rssFeed[f].lastFetched = NULL
        /\ ~ENABLED NextStream

(* Two stale feeds requested by a signed-in user, endDate missing. *)
C16_Witness ==
    /\ route.status = 400
    /\ route.caller = "user"
    /\ route.body.feedIds.ids = <<"F1", "F3">>
    /\ getFeedsToRefresh({"F1", "F3"}) # <<>>
    /\ route.body.startDate = Str(<<0>>)
    /\ route.body.endDate = Absent

(* C17: the identity key of a parsed item is its guid, whatever its link,   *)
(* when the guid is present and not empty; otherwise its link when that is  *)
(* present and not empty; otherwise the feed id, a hyphen and the title;    *)
(* the key is never empty.                                                  *)
C17_IdentityKey ==
    parsed.out # <<>> =>
        LET it == parsed.item
            key == parsed.out[1].guid
            hasGuid == it.guid.present /\ it.guid.chars # <<>>
            hasLink == it.link.present /\ it.link.chars # <<>> IN
        /\ hasGuid => key = it.guid.chars
        /\ (~hasGuid /\ hasLink) => key = it.link.chars
        /\ (~hasGuid /\ ~hasLink) =>
               /\ SubSeq(key, 1, 2) = <<parsed.feedId, "-">>
               /\ it.title.present => SubSeq(key, 3, Len(key)) = it.title.chars
        /\ Len(key) > 0

(* An empty guid, no link and an empty title: the key is "{feedId}-". *)
C17_Witness ==
    /\ parsed.item.guid = Str(<<>>)
    /\ parsed.item.link = Absent
    /\ parsed.item.title = Str(<<>>)
    /\ parsed.out # <<>>
    /\ parsed.out[1].guid = <<parsed.feedId, "-">>

(* The order of the steps of one refresh. *)
RefreshOrder ==
    { <<"none", "start">>, <<"start", "find">>, <<"start", "stamp">>, <<"start", "rejected">>,
      <<"find", "write">>, <<"write", "find">>, <<"write", "stamp">>, <<"stamp", "fulfilled">> }

C19_FailedFeedStaleAgain ==
    [][ /\ \A x \in TaskIds :
             task[x[1]][x[2]].pc = "rejected" => task'[x[1]][x[2]] = task[x[1]][x[2]]
        /\ \A r \in Reqs :
             (req[r].pc = "idle" /\ req'[r].pc # "idle") =>
                 /\ Len(req'[r].stale) = Cardinality(Range(req'[r].stale))
                 /\ \A f \in req'[r].feedIds : \A q \in Reqs \ {r} :
                      ( /\ task[q][f].pc = "rejected"
                        /\ mostRecentFetch(rssFeed, rssFeed[f].url) = task[q][f].seen ) =>
                          /\ f \in Range(req'[r].stale)
                          /\ task'[r][f].pc = "start" ]_vars

(* The fetch of an active feed failed in a pass that is over, and another   *)
(* request has started the refresh of that feed.                            *)
C19_Witness ==
    \E r \in Reqs, q \in Reqs, f \in FeedIds :
        /\ r # q
        /\ req[q].pc = "done"
        /\ req[q].failed >= 1
        /\ task[q][f].pc = "rejected"
        /\ task[q][f].fetched
        /\ rssFeed[f].isActive
        /\ FetchedTimes(rssFeed[f].url) = {}
        /\ task[r][f].pc = "start"

(* C20: a pass starts fetchAndStoreFeed for the feeds that its              *)
(* classification found stale and for no other: a requested feed gets a    *)
(* refresh exactly when no feed of its URL was fetched within the window at *)
(* classification, a refresh is started once, a pass without stale feeds    *)
(* goes to retrieval with no refresh, and the retrieval step is taken only  *)
(* when every refresh of the pass has fulfilled or rejected.                *)
C20_RefreshExactlyStale ==
    [][ \A r \in Reqs :
          /\ (req[r].pc = "idle" /\ req'[r].pc # "idle") =>
                 /\ Range(req'[r].stale) =
                        { f \in req'[r].feedIds : StaleByPolicy(f, CACHE_WINDOW) }
                 /\ Len(req'[r].stale) = Cardinality(Range(req'[r].stale))
                 /\ \A f \in FeedIds :
                      task'[r][f].pc = IF f \in Range(req'[r].stale) THEN "start" ELSE "none"
                 /\ req'[r].stale = <<>> <=> req'[r].pc = "retrieve"
          /\ req[r].pc # "idle" => req'[r].stale = req[r].stale
          /\ \A f \in FeedIds :
                 /\ task'[r][f].pc # "none" => f \in Range(req'[r].stale)
                 /\ (task[r][f].pc # "none" /\ task'[r][f].pc = "start") => task[r][f].pc = "start"
          /\ (req[r].pc = "retrieve" /\ req'[r].pc = "done") =>
                 \A f \in Range(req[r].stale) : task[r][f].pc \in {"fulfilled", "rejected"} ]_vars

(* F1 and F3 requested after another request refreshed F1: only F3 was      *)
(* fetched, and the pass went on to retrieval when F3 had settled.          *)
C20_Witness ==
    \E r \in Reqs :
        /\ req[r].pc = "done"
        /\ req[r].feedIds = {"F1", "F3"}
        /\ req[r].stale = <<"F3">>
        /\ task[r]["F1"].pc = "none"
        /\ task[r]["F3"].pc = "fulfilled"
        /\ rssFeed["F1"].lastFetched # NULL

(* C21: a document is fetched for a feed only when no feed of its URL has   *)
(* been fetched within the cache window at that moment, also under two      *)
(* concurrent requests for the feed and for two stale feeds of one URL in   *)
(* one request.                                                             *)
C21_FetchOnlyWhenStale ==
    [][ \A x \in TaskIds :
          ( /\ task[x[1]][x[2]].pc = "start"
            /\ ~task[x[1]][x[2]].fetched
            /\ task'[x[1]][x[2]].fetched ) =>
              StaleByPolicy(x[2], CACHE_WINDOW) ]_vars

(* C22: a feed whose refresh by the orchestrator succeeded carries the      *)
(* title, description, link, image and language of the parsed document.     *)
C22_RefreshUpdatesMetadata ==
    \A x \in TaskIds :
        task[x[1]][x[2]].pc = "fulfilled" =>
            /\ rssFeed[x[2]].lastFetched # NULL
            /\ rssFeed[x[2]].meta = FeedMetadata(rssFeed[x[2]].url)

------------------------------------------------------------------------------
(* Sweep model: fetchAllUserFeeds walks the caller's active feeds, one      *)
(* fetchAndStoreFeed after the other, while a generation request runs a     *)
(* refresh pass of prepareFeedsAndArticles over its own feeds.              *)

SweepReq == "R2"
PassReq == "R1"

Reverse(s) == [ i \in 1..Len(s) |-> s[Len(s) + 1 - i] ]

(* where: { userId, isActive: true }, orderBy: { createdAt: "desc" } *)
getRssFeedsByUserId ==
    Reverse(SelectSeq(FeedOrder, LAMBDA f : f \in DOMAIN rssFeed /\ rssFeed[f].isActive))

(* const feeds = await getRssFeedsByUserId(userId); results = { total: ... } *)
SweepStart ==
    /\ sweep.pc = "none"
    /\ sweep' = [NoSweep EXCEPT !.pc = "loop", !.feeds = getRssFeedsByUserId, !.idx = 1,
                                !.total = Len(getRssFeedsByUserId)]
    /\ UNCHANGED <<now, rssFeed, rssArticle, req, task, faults, cls, route, parsed, query,
                  client, newsletter, action>>

(* for (const feed of feeds): fetchAndStoreFeed(feed.id) is called. *)
SweepCall ==
    /\ sweep.pc = "loop"
    /\ sweep.idx <= Len(sweep.feeds)
    /\ task' = [task EXCEPT ![SweepReq][sweep.feeds[sweep.idx]] = [NoTask EXCEPT !.pc = "start"]]
    /\ sweep' = [sweep EXCEPT !.pc = "await"]
    /\ UNCHANGED <<now, rssFeed, rssArticle, req, faults, cls, route, parsed, query,
                  client, newsletter, action>>

(* A catch branch that counts the failure and keeps no entry for it. *)
sweepSettle_CountOnly(s, f, t) ==
    IF t.pc = "fulfilled"
    THEN [s EXCEPT !.pc = "loop", !.idx = @ + 1, !.successful = @ + 1,
                   !.totalArticlesCreated = @ + t.created,
                   !.totalArticlesSkipped = @ + t.skipped]
    ELSE [s EXCEPT !.pc = "loop", !.idx = @ + 1, !.failed = @ + 1]

(* The body of the loop after the await: the try branch adds to the counts, *)
(* the catch branch counts the failure and pushes { feedId, error }.        *)
sweepSettle(s, f, t) ==
    IF t.pc = "fulfilled"
    THEN [s EXCEPT !.pc = "loop", !.idx = @ + 1, !.successful = @ + 1,
                   !.totalArticlesCreated = @ + t.created,
                   !.totalArticlesSkipped = @ + t.skipped]
    ELSE [s EXCEPT !.pc = "loop", !.idx = @ + 1, !.failed = @ + 1,
                   !.errors = Append(@, [feedId |-> f, error |-> t.error])]

SweepSettle ==
    /\ sweep.pc = "await"
    /\ LET f == sweep.feeds[sweep.idx] IN
       /\ task[SweepReq][f].pc \in {"fulfilled", "rejected"}
       /\ sweep' = sweepSettle(sweep, f, task[SweepReq][f])
    /\ UNCHANGED <<now, rssFeed, rssArticle, req, task, faults, cls, route, parsed, query,
                  client, newsletter, action>>

(* return results; *)
SweepReturn ==
    /\ sweep.pc = "loop"
    /\ sweep.idx > Len(sweep.feeds)
    /\ sweep' = [sweep EXCEPT !.pc = "returned"]
    /\ UNCHANGED <<now, rssFeed, rssArticle, req, task, faults, cls, route, parsed, query,
                  client, newsletter, action>>

NextSweep ==
    \/ SweepStart
    \/ SweepCall
    \/ SweepSettle
    \/ SweepReturn
    \/ \E ids \in ReqFeedSets(PassReq) : PrepareStart(PassReq, ids)
    \/ \E r \in Reqs, f \in FeedIds : FetchFeed(r, f)
    \/ \E r \in Reqs, f \in FeedIds : UpsertFind(r, f)
    \/ \E r \in Reqs, f \in FeedIds : UpsertWrite(r, f)
    \/ \E r \in Reqs, f \in FeedIds : UpsertFault(r, f)
    \/ \E r \in Reqs, f \in FeedIds : StampFeed(r, f)
    \/ RefreshSettled(PassReq)
    \/ \E w \in Windows : Retrieve(PassReq, w)

SpecSweep == Init /\ [][NextSweep]_vars

(* The feeds of a pass whose refresh ended in the given way. *)
PassFeeds(r, pc) == { f \in Range(req[r].stale) : task[r][f].pc = pc }

(* C23: once the refresh pass of prepareFeedsAndArticles has settled, its   *)
(* two counts add up to the number of feeds it attempted, every failed feed *)
(* has one rejection reason and no succeeded feed has one; once             *)
(* fetchAllUserFeeds has returned, total = successful + failed and errors   *)
(* holds one entry per failed feed, with that feed's id and its message.    *)
C23_RefreshSummary ==
    /\ req[PassReq].pc \in {"retrieve", "done"} =>
         /\ req[PassReq].successful + req[PassReq].failed = Len(req[PassReq].stale)
         /\ req[PassReq].failed = Cardinality(PassFeeds(PassReq, "rejected"))
         /\ \A f \in Range(req[PassReq].stale) :
              (task[PassReq][f].error # "") <=> (task[PassReq][f].pc = "rejected")
    /\ sweep.pc = "returned" =>
         /\ sweep.total = Len(sweep.feeds)
         /\ sweep.total = sweep.successful + sweep.failed
         /\ Len(sweep.errors) = sweep.failed
         /\ \A f \in Range(sweep.feeds) :
              IF task[SweepReq][f].pc = "rejected"
              THEN Cardinality({ i \in 1..Len(sweep.errors) :
                                   sweep.errors[i] = [feedId |-> f,
                                                      error |-> task[SweepReq][f].error] }) = 1
              ELSE \A i \in 1..Len(sweep.errors) : sweep.errors[i].feedId # f

(* Both summaries are taken, each over a succeeded and a failed feed. *)
C23_Witness ==
    /\ req[PassReq].pc \in {"retrieve", "done"}
    /\ req[PassReq].successful > 0
    /\ req[PassReq].failed > 0
    /\ sweep.pc = "returned"
    /\ sweep.successful > 0
    /\ sweep.failed > 0

------------------------------------------------------------------------------
(* Page model: NewsletterGenerationPage.handleGenerate posts the request to *)
(* the endpoint of the endpoint model and reads its event stream.           *)

(* The bodies the page can send: it starts only with both dates present. *)
ClientBodies == { b \in Bodies : Truthy(b.startDate) /\ Truthy(b.endDate) }

Toast(kind, n, text) == [kind |-> kind, n |-> n, text |-> text]

(* The outer catch block followed by the finally block. *)
clientCatch(c, msg) ==
    [c EXCEPT !.pc = "ended", !.toasts = Append(@, Toast("error", 0, msg)),
              !.newsletter = NULL, !.loadingPhase = "idle", !.isGenerating = FALSE]

(* The try block around one "data: " line: the branch of the event type;    *)
(* the Error thrown by the error branch is caught by the catch of this try  *)
(* block, which logs a warning and goes on with the next line.              *)
onEvent(c, e, i) ==
    CASE e.type = "refreshing" -> [c EXCEPT !.loadingPhase = "refreshing", !.feedCount = e.n]
      [] e.type = "analyzing" -> [c EXCEPT !.loadingPhase = "analyzing", !.feedCount = e.n]
      [] e.type = "metadata" -> [c EXCEPT !.articlesAnalyzed = e.n, !.loadingPhase = "generating"]
      [] e.type = "partial" -> [c EXCEPT !.newsletter = i, !.loadingPhase = "generating"]
      [] e.type = "complete" ->
           [c EXCEPT !.loadingPhase = "complete",
                     !.toasts = Append(@, Toast("success", c.articlesAnalyzed, ""))]
      [] OTHER -> c

(* handleGenerate up to the fetch call. *)
ClientGenerate ==
    /\ client.pc = "mounted"
    /\ client' = [client EXCEPT !.pc = "fetching", !.isGenerating = TRUE, !.newsletter = NULL,
                                !.articlesAnalyzed = 0, !.feedCount = 0,
                                !.loadingPhase = "idle"]
    /\ UNCHANGED <<now, rssFeed, rssArticle, req, task, faults, cls, route, parsed, query,
                  sweep, newsletter, action>>

(* The endpoint receives the request the page sent. *)
ClientRequest(body, caller) ==
    /\ client.pc = "fetching"
    /\ RouteReceive(body, caller)

(* The Response arrived: !response.ok throws into the outer catch. *)
ClientResponse ==
    /\ client.pc = "fetching"
    /\ route.pc # "none"
    /\ client' = IF route.status # 200
                 THEN clientCatch(client, "Failed to generate newsletter")
                 ELSE [client EXCEPT !.pc = "reading"]
    /\ UNCHANGED <<now, rssFeed, rssArticle, req, task, faults, cls, route, parsed, query,
                  sweep, newsletter, action>>

(* reader.read() returned a chunk: its next "data: " line is handled. *)
ClientRead ==
    /\ client.pc = "reading"
    /\ client.read < Len(route.events)
    /\ client' = [onEvent(client, route.events[client.read + 1], client.read + 1)
                     EXCEPT !.read = client.read + 1]
    /\ UNCHANGED <<now, rssFeed, rssArticle, req, task, faults, cls, route, parsed, query,
                  sweep, newsletter, action>>

(* reader.read() returned done: the loop ends, the finally block runs. *)
ClientDone ==
    /\ client.pc = "reading"
    /\ client.read = Len(route.events)
    /\ route.closed
    /\ client' = [client EXCEPT !.pc = "ended", !.isGenerating = FALSE]
    /\ UNCHANGED <<now, rssFeed, rssArticle, req, task, faults, cls, route, parsed, query,
                  sweep, newsletter, action>>

NextClient ==
    \/ ClientGenerate
    \/ \E body \in ClientBodies, caller \in Callers : ClientRequest(body, caller)
    \/ ClientResponse
    \/ ClientRead
    \/ ClientDone
    \/ RouteClassify
    \/ RouteClassifyFail
    \/ RouteAuth
    \/ RoutePrepare
    \/ \E f \in FeedIds : FetchFeed(RouteReq, f)
    \/ \E f \in FeedIds : UpsertFind(RouteReq, f)
    \/ \E f \in FeedIds : UpsertWrite(RouteReq, f)
    \/ \E f \in FeedIds : UpsertFault(RouteReq, f)
    \/ \E f \in FeedIds : StampFeed(RouteReq, f)
    \/ RefreshSettled(RouteReq)
    \/ RouteRetrieve
    \/ RouteGenerate
    \/ RoutePartial
    \/ RouteStreamFail
    \/ RouteComplete

SpecClient == Init /\ [][NextClient]_vars

(* The error events the page has read. *)
ErrorsRead == { i \in 1..client.read : route.events[i].type = "error" }

(* C24: a run of the page that read an error event ends with that error    *)
(* shown in a toast, no partial newsletter, the idle phase and isGenerating *)
(* false.                                                                   *)
C24_ErrorEventSurfaced ==
    (client.pc = "ended" /\ ErrorsRead # {}) =>
        /\ \A i \in ErrorsRead :
             \E k \in 1..Len(client.toasts) :
                client.toasts[k] = Toast("error", 0, route.events[i].error)
        /\ client.newsletter = NULL
        /\ client.loadingPhase = "idle"
        /\ ~client.isGenerating

------------------------------------------------------------------------------
(* Newsletter model: saveGeneratedNewsletter and deleteNewsletterAction     *)
(* called by sessions with and without a user row.                          *)

MaxNewsletters == 3

NewsletterIds == 1..MaxNewsletters

(* Sessions: none, one without a user row, two users with a row each. *)
Sessions == { "anon", "nouser", "alice", "bob" }

(* getUserByClerkId: the user row of the session, as a list of at most one *)
(* row.                                                                     *)
getUserByClerkId(c) == IF c \in {"alice", "bob"} THEN << [id |-> c] >> ELSE << >>

Called(name, c, id, outcome) == [name |-> name, caller |-> c, id |-> id, outcome |-> outcome]

(* prisma.newsletter.create({ data: { userId, ... } }) *)
createNewsletter(nl, userId) ==
    [rows |-> [ n \in DOMAIN nl.rows \cup {nl.created + 1} |->
                  IF n = nl.created + 1 THEN [userId |-> userId] ELSE nl.rows[n] ],
     created |-> nl.created + 1]

(* prisma.newsletter.delete({ where: { id: newsletterId } }) *)
deleteNewsletter(nl, newsletterId) ==
    [nl EXCEPT !.rows = [ n \in DOMAIN nl.rows \ {newsletterId} |-> nl.rows[n] ]]

SaveGeneratedNewsletter(c) ==
    /\ IF c = "anon"
       THEN /\ action' = Called("save", c, 0, "User not authenticated")
            /\ newsletter' = newsletter
       ELSE IF getUserByClerkId(c) = << >>
       THEN /\ action' = Called("save", c, 0, "User not found in database")
            /\ newsletter' = newsletter
       ELSE /\ newsletter.created < MaxNewsletters
            /\ newsletter' = createNewsletter(newsletter, getUserByClerkId(c)[1].id)
            /\ action' = Called("save", c, newsletter.created + 1, "saved")
    /\ UNCHANGED <<now, rssFeed, rssArticle, req, task, faults, cls, route, parsed, query,
                  sweep, client>>

DeleteNewsletterAction(c, newsletterId) ==
    /\ IF c = "anon"
       THEN /\ action' = Called("delete", c, newsletterId, "User not authenticated")
            /\ newsletter' = newsletter
       ELSE IF getUserByClerkId(c) = << >>
       THEN /\ action' = Called("delete", c, newsletterId, "User not found in database")
            /\ newsletter' = newsletter
       ELSE IF newsletterId \in DOMAIN newsletter.rows
       THEN /\ newsletter' = deleteNewsletter(newsletter, newsletterId)
            /\ action' = Called("delete", c, newsletterId, "success")
       ELSE /\ newsletter' = newsletter
            /\ action' = Called("delete", c, newsletterId,
                                "Failed to delete newsletter from database")
    /\ UNCHANGED <<now, rssFeed, rssArticle, req, task, faults, cls, route, parsed, query,
                  sweep, client>>

NextDelete ==
    \/ \E c \in Sessions : SaveGeneratedNewsletter(c)
    \/ \E c \in Sessions, n \in NewsletterIds : DeleteNewsletterAction(c, n)

SpecDelete == Init /\ [][NextDelete]_vars

(* C25: a newsletter leaves the collection only in a step of               *)
(* deleteNewsletterAction called by a session that has a user row and owns  *)
(* that newsletter.                                                         *)
C25_DeleteOnlyOwn ==
    [][ \A n \in DOMAIN newsletter.rows :
          n \notin DOMAIN newsletter'.rows =>
              /\ action'.name = "delete"
              /\ action'.id = n
              /\ getUserByClerkId(action'.caller) # << >>
              /\ getUserByClerkId(action'.caller)[1].id = newsletter.rows[n].userId ]_vars

C27_SourceSetGrowsOnly ==
    [][ /\ \A i \in 1..Len(rssArticle') :
             /\ Len(rssArticle'[i].sourceFeedIds) >= 1
             /\ rssArticle'[i].sourceFeedIds[1] = rssArticle'[i].feedId
             /\ withSourceCount(rssArticle'[i]).sourceCount >= 1
        /\ \A i \in 1..Len(rssArticle) :
             /\ i <= Len(rssArticle')
             /\ rssArticle'[i].guid = rssArticle[i].guid
             /\ Len(rssArticle'[i].sourceFeedIds) >= Len(rssArticle[i].sourceFeedIds)
             /\ SubSeq(rssArticle'[i].sourceFeedIds, 1, Len(rssArticle[i].sourceFeedIds)) =
                    rssArticle[i].sourceFeedIds
             /\ withSourceCount(rssArticle'[i]).sourceCount >=
                    withSourceCount(rssArticle[i]).sourceCount ]_vars

(* An article stored by one feed and sighted again by another feed of the   *)
(* same URL: two entries, the primary feed first.                           *)
C27_Witness ==
    \E i \in 1..Len(rssArticle) :
        /\ Len(rssArticle[i].sourceFeedIds) = 2
        /\ rssArticle[i].sourceFeedIds[1] = rssArticle[i].feedId
        /\ rssArticle[i].sourceFeedIds[2] # rssArticle[i].feedId

------------------------------------------------------------------------------
(* Stamp model: the refresh model with the clock and with a failing         *)
(* lastFetched write.                                                       *)

(* prisma.rssFeed.update throws inside updateFeedLastFetched, whose catch   *)
(* block throws in turn: fetchAndStoreFeed rejects after its batch.         *)
StampFault(r, f) ==
    /\ task[r][f].pc = "stamp"
    /\ faults < MaxDbFailures
    /\ task' = [task EXCEPT ![r][f] =
                  [@ EXCEPT !.pc = "rejected",
                            !.error = "Failed to update feed timestamp in database"]]
    /\ faults' = faults + 1
    /\ UNCHANGED <<now, rssFeed, rssArticle, req, cls, route, parsed, query,
                  sweep, client, newsletter, action>>

NextStamp ==
    \/ \E r \in Reqs, f \in FeedIds : StartFetch(r, f)
    \/ \E r \in Reqs, f \in FeedIds : FetchFeed(r, f)
    \/ \E r \in Reqs, f \in FeedIds : UpsertFind(r, f)
    \/ \E r \in Reqs, f \in FeedIds : UpsertWrite(r, f)
    \/ \E r \in Reqs, f \in FeedIds : UpsertFault(r, f)
    \/ \E r \in Reqs, f \in FeedIds : StampFeed(r, f)
    \/ \E r \in Reqs, f \in FeedIds : StampFault(r, f)
    \/ Tick

SpecStamp == InitFetch /\ [][NextStamp]_vars

(* The refreshes whose document was fetched and parsed (the batch was set   *)
(* up and the loop over it entered).                                        *)
Parsed == { x \in TaskIds : task[x[1]][x[2]].idx >= 1 }

(* C28: a refresh whose fetch and parse succeeded never fails, whatever the *)
(* upserts of its batch did; once it has settled, lastFetched is set and    *)
(* the feed is classified fresh while the cache window lasts.               *)
C28_ParsedFeedSucceeds ==
    \A x \in Parsed :
        LET t == task[x[1]][x[2]] IN
        /\ t.pc # "rejected"
        /\ t.pc = "fulfilled" =>
             /\ rssFeed[x[2]].lastFetched # NULL
             /\ now - rssFeed[x[2]].lastFetched <= CACHE_WINDOW =>
                    x[2] \notin Range(getFeedsToRefresh({x[2]}))

(* C28 as it holds: a refresh whose fetch and parse succeeded fails only    *)
(* when the write of lastFetched itself failed, after the whole batch was   *)
(* handled; the upserts counted as errors never make it fail or keep it     *)
(* from writing lastFetched, and a fulfilled refresh leaves its feed        *)
(* classified fresh while the cache window lasts.                           *)
C28_UpsertErrorsNeverFail ==
    \A x \in Parsed :
        LET t == task[x[1]][x[2]] IN
        /\ t.pc = "rejected" =>
             /\ t.error = "Failed to update feed timestamp in database"
             /\ Len(t.log) = Len(t.batch)
        /\ t.pc = "stamp" => ENABLED StampFeed(x[1], x[2])
        /\ t.pc = "fulfilled" =>
             /\ rssFeed[x[2]].lastFetched # NULL
             /\ now - rssFeed[x[2]].lastFetched <= CACHE_WINDOW =>
                    x[2] \notin Range(getFeedsToRefresh({x[2]}))

(* A refresh whose only upsert was counted as an error has fulfilled, and   *)
(* two hours later its feed is still classified fresh.                      *)
C28_Witness ==
    \E x \in Parsed :
        /\ task[x[1]][x[2]].pc = "fulfilled"
        /\ task[x[1]][x[2]].errors = Len(task[x[1]][x[2]].batch)
        /\ task[x[1]][x[2]].errors > 0
        /\ now > rssFeed[x[2]].lastFetched
        /\ rssFeed[x[2]].lastFetched # NULL
        /\ x[2] \notin Range(getFeedsToRefresh({x[2]}))

------------------------------------------------------------------------------
(* Race model: the endpoint serving one request while a second generation   *)
(* request (R2) runs its own pass of prepareFeedsAndArticles.               *)

OtherReq == "R2"

NextRace ==
    \/ NextStream
    \/ \E ids \in ReqFeedSets(OtherReq) : PrepareStart(OtherReq, ids)
    \/ \E f \in FeedIds : FetchFeed(OtherReq, f)
    \/ \E f \in FeedIds : UpsertFind(OtherReq, f)
    \/ \E f \in FeedIds : UpsertWrite(OtherReq, f)
    \/ \E f \in FeedIds : UpsertFault(OtherReq, f)
    \/ \E f \in FeedIds : StampFeed(OtherReq, f)
    \/ RefreshSettled(OtherReq)
    \/ \E w \in Windows : Retrieve(OtherReq, w)

SpecRace == Init /\ [][NextRace]_vars

(* The refreshes the request of the endpoint has started. *)
Attempted == { f \in FeedIds : task[RouteReq][f].pc # "none" }

(* C29: when the stream of a request has closed, it carries a refreshing    *)
(* event exactly if the request started the refresh of at least one feed,   *)
(* and the feedCount of that event is the number of refreshes it started.   *)
C29_RefreshingIffRefreshed ==
    route.closed =>
        /\ Occurs("refreshing") > 0 <=> Attempted # {}
        /\ \A i \in 1..Len(route.events) :
             route.events[i].type = "refreshing" =>
                 route.events[i].n = Cardinality(Attempted)

(* C30: a request whose caller has no session, or no user row, starts no    *)
(* refresh and leaves feeds and articles as they were (no lastFetched set,  *)
(* no article stored); when its stream has closed, the stream ends with an  *)
(* error event and holds no metadata, partial or complete event.            *)
C30_NoUserNoSideEffect ==
    (route.pc # "none" /\ route.caller \in {"anon", "nouser"}) =>
        /\ req[RouteReq] = NoReq
        /\ \A f \in FeedIds : task[RouteReq][f] = NoTask
        /\ \A f \in FeedIds : rssFeed[f].lastFetched = NULL
        /\ rssArticle = <<>>
        /\ route.closed =>
             /\ route.events[Len(route.events)].type = "error"
             /\ Occurs("metadata") = 0
             /\ Occurs("partial") = 0
             /\ Occurs("complete") = 0

(* A caller without a user row asked for stale feeds: the stream announced  *)
(* the refresh and closed on the error of the user lookup.                  *)
C30_Witness ==
    /\ route.closed
    /\ route.caller = "nouser"
    /\ Occurs("refreshing") = 1
    /\ route.events[Len(route.events)] = Event("error", 0, "User not found in database")
    /\ \A f \in FeedIds : rssFeed[f].lastFetched = NULL

====
